---- MODULE Spec2Model ----
(***************************************************************************)
(* Vacation-planning workflows of vacation_scenario/langgraph_vacation.py  *)
(* and vacation_scenario/hybrid_vacation.py: an orchestrator node (task),  *)
(* two worker nodes (search, booker), their tool executors (search_tools,  *)
(* booker_tools) and the routing functions, driven by a LangGraph          *)
(* StateGraph under a recursion limit.  The language model behind every    *)
(* node is an oracle: each reply is a nondeterministic choice.             *)
(* The tools of the workers are the functions of shared_tools.py on the    *)
(* travel database of that module.                                         *)
(*   Spec             one run of a workflow, tool results left open        *)
(*   SpecAlwaysSearch one run whose orchestrator always decides "search"   *)
(*   SpecTools        the tool functions called directly on the database   *)
(*   SpecRuns         two runs interleaved, their tools on one database    *)
(*   SpecTrip         one run from start to end, its tools on the database *)
(*   SpecBookings     create_booking called on two threads at once         *)
(***************************************************************************)
EXTENDS Integers, Sequences, FiniteSets, TLC

VARIABLES
    variant,      \* which workflow file runs: "langgraph" or "hybrid"
    messages,     \* VacationGraphState["messages"]
    next_agent,   \* VacationGraphState["next_agent"] ("none": key absent)
    node,         \* the node the graph runs next ("END": no node is left)
    steps,        \* supersteps executed so far (the counter `state` of main)
    status,       \* "running", "done", or the exception that ended the run
    prev,         \* the node whose step completed last ("none" at start)
    decision,     \* next_agent of the latest TaskDelegation the oracle returned
    reply_calls,  \* tool calls requested by the latest worker oracle reply
    invoked,      \* tool functions the latest step called, in order
    returned,     \* what they returned: the set of "payload", "error" that occurred
    prompt,       \* the system prompt of the latest model call ("none": no model was asked)
    db,           \* the tables behind shared_tools.db
    runs,         \* the workflow runs of one process, each with its own graph state
    acted,        \* the latest tool calls made: by which run, in which node, with what result
    path,         \* the nodes a run with its tools on the database has executed, in order
    threads       \* the threads inside TravelDatabase.create_booking: where each is, what it got back

vars == <<variant, messages, next_agent, node, steps, status, prev,
          decision, reply_calls, invoked, returned, prompt, db, runs, acted, path,
          threads>>

\* what a single workflow run with tool results left open does not touch
outside == <<db, runs, acted, path, threads>>

(***************************************************************************)
(* Bounds of the model.                                                    *)
(***************************************************************************)
\* config["recursion_limit"] of app.stream; main() passes 50, the model runs
\* the same loop under a scaled-down budget.
recursion_limit == 10

\* most tool calls one oracle reply requests
MaxCalls == 2

\* most pieces a statement handed to query_database is made of
MaxWords == 2

\* item ids named in a booking are 0..MaxItemId
MaxItemId == 2

\* the steps of each run that are followed when two runs are interleaved
MaxRunSteps == 3

\* most tool calls one oracle reply requests when two runs are interleaved
MaxRunCalls == 1

\* most calls of create_booking one thread makes
MaxBookingCalls == 2

(***************************************************************************)
(* Program constants.                                                      *)
(***************************************************************************)
\* messages[-8:] in booker_node of hybrid_vacation.py
GuardWindow == 8

END == "END"

Variants == {"langgraph", "hybrid"}

\* search_tools / booking_tools: the tools bound to each worker's model and
\* registered in its ToolNode
\* variant of search_tools that also hands the booking tool to the search worker
search_tools_with_booking == {"web_search", "query_database", "create_booking"}

search_tools == {"web_search", "query_database"}
booking_tools == {"create_booking"}

\* Literal["search", "booker", "end"] of TaskDelegation.next_agent
Agents == {"search", "booker", "end"}

(***************************************************************************)
(* Messages.  tool_calls is [shape, calls]: shape "list" is the list of    *)
(* tool calls an AIMessage carries, shape "dict" is a single tool-call     *)
(* dict stored in the attribute in place of the list; "absent" is a        *)
(* message type without the attribute (HumanMessage, ToolMessage).         *)
(* content is a sequence of text fragments.                                *)
(***************************************************************************)
NoCalls == [shape |-> "absent", calls |-> <<>>]

ListCalls(cs) == [shape |-> "list", calls |-> cs]

HumanMessage(content, name) ==
    [type |-> "human", name |-> name, content |-> content,
     tool_calls |-> NoCalls, id |-> 0]

AIMessage(content, name, tool_calls) ==
    [type |-> "ai", name |-> name, content |-> content,
     tool_calls |-> tool_calls, id |-> 0]

ToolMessage(content, name) ==
    [type |-> "tool", name |-> name, content |-> content,
     tool_calls |-> NoCalls, id |-> 0]

\* what a node returns: the messages to add and, when the node sets it, the
\* next_agent key ("absent": the node returns no such key)
Update(msgs, na) == [messages |-> msgs, next_agent |-> na]

Last(s) == s[Len(s)]

\* variant of Tail_n that takes one message more
Tail_n_one_more(s, n) == IF Len(s) <= n + 1 THEN s ELSE SubSeq(s, Len(s) - n, Len(s))

\* messages[-n:]
Tail_n(s, n) == IF Len(s) <= n THEN s ELSE SubSeq(s, Len(s) - n + 1, Len(s))

IsPrefix(s, t) == Len(s) <= Len(t) /\ SubSeq(t, 1, Len(s)) = s

\* sequences over S of length 0..n
RECURSIVE SeqsUpTo(_, _)
SeqsUpTo(S, n) ==
    IF n = 0 THEN {<<>>}
    ELSE LET shorter == SeqsUpTo(S, n - 1)
         IN  shorter \cup {Append(s, x) : s \in {t \in shorter : Len(t) = n - 1}, x \in S}

(***************************************************************************)
(* add_messages, the reducer of the messages channel: a message whose id   *)
(* is already in the log replaces that entry, any other message is         *)
(* appended.  Messages arrive without an id of the log (a new uuid, or the *)
(* run id of the model call); the model numbers them in order.             *)
(***************************************************************************)
RECURSIVE add_messages(_, _)
add_messages(left, right) ==
    IF right = <<>> THEN left
    ELSE LET m == [right[1] EXCEPT !.id = Len(left) + 1]
             hit == {i \in 1..Len(left) : left[i].id = m.id}
             merged == IF hit = {}
                       THEN Append(left, m)
                       ELSE [i \in 1..Len(left) |-> IF i \in hit THEN m ELSE left[i]]
         IN  add_messages(merged, Tail(right))

(***************************************************************************)
(* Text.  Where the program looks inside a text (the statement handed to   *)
(* query_database, a confirmation number) the text is a sequence of        *)
(* characters; a text that is only passed along or compared is a string.   *)
(***************************************************************************)
Whitespace == {" ", "\n"}

upper_char(c) ==
    CASE c = "c" -> "C" [] c = "d" -> "D" [] c = "e" -> "E" [] c = "l" -> "L"
      [] c = "o" -> "O" [] c = "p" -> "P" [] c = "r" -> "R" [] c = "s" -> "S"
      [] c = "t" -> "T" [] c = "x" -> "X" [] OTHER -> c

\* str.upper()
upper(text) == [i \in 1..Len(text) |-> upper_char(text[i])]

RECURSIVE lstrip(_)
lstrip(text) ==
    IF text # <<>> /\ text[1] \in Whitespace THEN lstrip(Tail(text)) ELSE text

RECURSIVE rstrip(_)
rstrip(text) ==
    IF text # <<>> /\ text[Len(text)] \in Whitespace
    THEN rstrip(SubSeq(text, 1, Len(text) - 1))
    ELSE text

\* str.strip()
strip(text) == rstrip(lstrip(text))

\* str.startswith(prefix)
startswith(text, prefix) ==
    Len(prefix) <= Len(text) /\ SubSeq(text, 1, Len(prefix)) = prefix

digit(d) ==
    CASE d = 0 -> "0" [] d = 1 -> "1" [] d = 2 -> "2" [] d = 3 -> "3" [] d = 4 -> "4"
      [] d = 5 -> "5" [] d = 6 -> "6" [] d = 7 -> "7" [] d = 8 -> "8" [] d = 9 -> "9"

\* the decimal text of n >= 0, as an f-string renders an int
RECURSIVE str(_)
str(n) == IF n < 10 THEN <<digit(n)>> ELSE Append(str(n \div 10), digit(n % 10))

RECURSIVE Flatten(_)
Flatten(ss) == IF ss = <<>> THEN <<>> ELSE ss[1] \o Flatten(Tail(ss))

SELECT == <<"S", "E", "L", "E", "C", "T">>
DROP == <<"D", "R", "O", "P">>
CONF == <<"C", "O", "N", "F", "-">>

\* the pieces the statements of the model are put together from
Pieces ==
    {<<"\n", " ">>, <<"x">>, <<"S", "e", "l", "e", "c", "t">>, <<"d", "r", "o", "p">>}

\* the texts made of at most n pieces
Texts(n) == {Flatten(ps) : ps \in SeqsUpTo(Pieces, n)}

\* the statements query_database is called with
Queries == Texts(MaxWords)

\* the statements the models of the workflows write: one that reads, one
\* that does not
ShortQueries == {<<"S", "e", "l", "e", "c", "t">>, <<"d", "r", "o", "p">>}

(***************************************************************************)
(* TravelDatabase.  The tables flights and hotels hold the price of each   *)
(* item under its id (AUTOINCREMENT ids 1, 2, ... of the rows inserted by   *)
(* _initialize_database, prices in cents), attractions the entry fees;     *)
(* bookings holds the rows that                                            *)
(* create_booking inserted, in order.  A dropped table is the empty one.   *)
(* The customer columns are passed through and left out.                   *)
(***************************************************************************)
\* flights_data, hotels_data and attractions_data, cut down to the first rows
\* (the entry fee of the first attraction is None)
flights_data == <<29999, 34999>>
hotels_data == <<49999>>
attractions_data == <<"None">>

TravelDatabase ==
    [flights |-> flights_data, hotels |-> hotels_data,
     attractions |-> attractions_data, bookings |-> <<>>]

\* Literal["flight", "hotel", "attraction"]
BookingTypes == {"flight", "hotel", "attraction"}

\* one thing a call can do: the database it leaves and the value it returns
Outcome(d, result) == [db |-> d, result |-> result]

\* variant of randint whose range starts at 0
randint_from_zero(lo, hi) == {0, hi}

\* random.randint(lo, hi), sampled at the two ends of its range
randint(lo, hi) == {lo, hi}

\* cursor.execute(query) followed by fetchall(), as sqlite runs the statement:
\* a statement that starts with SELECT reads (here: the bookings) or fails,
\* DROP removes the flights table, anything else is a syntax error.
\* The value is the rows, or "sqlite3.Error" raised.
cursor_execute(d, query) ==
    LET statement == upper(strip(query))
    IN  IF startswith(statement, SELECT)
        THEN {[db |-> d, rows |-> d.bookings, raised |-> FALSE],
              [db |-> d, rows |-> <<>>, raised |-> TRUE]}
        ELSE IF startswith(statement, DROP)
        THEN {[db |-> [d EXCEPT !.flights = <<>>], rows |-> <<>>, raised |-> FALSE]}
        ELSE {[db |-> d, rows |-> <<>>, raised |-> TRUE]}

SQLQueryResult(success, rows, error) ==
    [success |-> success, rows |-> rows, row_count |-> Len(rows), error |-> error]

query_result(x) ==
    IF x.raised
    THEN Outcome(x.db, SQLQueryResult(FALSE, <<>>, "sqlite3.Error"))
    ELSE Outcome(x.db, SQLQueryResult(TRUE, x.rows, "None"))

\* variant of execute_query that runs the statement without looking at it
execute_query_unchecked(d, query) == {query_result(x) : x \in cursor_execute(d, query)}

\* TravelDatabase.execute_query
execute_query(d, query) ==
    IF ~startswith(upper(strip(query)), SELECT)
    THEN {Outcome(d, SQLQueryResult(FALSE, <<>>, "Only SELECT queries are allowed"))}
    ELSE {query_result(x) : x \in cursor_execute(d, query)}

\* query_database(query)
query_database(d, query) == execute_query(d, query)

\* variant of price_table that looks every item up among the hotels
price_table_hotels(d, booking_type) == d.hotels

\* the table create_booking looks the price up in
price_table(d, booking_type) == IF booking_type = "flight" THEN d.flights ELSE d.hotels

booking_row(d, booking_type, item_id, confirmation, total_price) ==
    [booking_id |-> Len(d.bookings) + 1, booking_type |-> booking_type,
     item_id |-> item_id, confirmation_number |-> confirmation,
     total_price |-> total_price, status |-> "confirmed"]

\* the INSERT of create_booking with the commit behind it; the column
\* confirmation_number is UNIQUE, a second row with the same number raises
\* sqlite3.IntegrityError, which create_booking returns as a failure
insert_booking(d, row) ==
    IF \E i \in 1..Len(d.bookings) :
           d.bookings[i].confirmation_number = row.confirmation_number
    THEN Outcome(d, [success |-> FALSE, error |-> "sqlite3.Error"])
    ELSE Outcome([d EXCEPT !.bookings = Append(@, row)],
                 [success |-> TRUE, booking_id |-> row.booking_id,
                  confirmation_number |-> row.confirmation_number,
                  total_price |-> row.total_price, status |-> "confirmed"])

\* TravelDatabase.create_booking
db_create_booking(d, booking_type, item_id) ==
    LET table == price_table(d, booking_type)
    IN  IF item_id \notin DOMAIN table
        THEN {Outcome(d, [success |-> FALSE, error |-> "Item not found"])}
        ELSE {insert_booking(d, booking_row(d, booking_type, item_id,
                                            CONF \o str(n), table[item_id])) :
                 n \in randint(100000, 999999)}

\* create_booking(booking_type, item_id, ...) of shared_tools
create_booking(d, booking_type, item_id) ==
    IF booking_type = "attraction"
    THEN {Outcome(d, [success |-> TRUE, booking_id |-> 0,
                      confirmation_number |-> CONF \o str(123456),
                      total_price |-> 0, status |-> "confirmed"])}
    ELSE db_create_booking(d, booking_type, item_id)

\* mock_web_search: the result list is never empty and never longer than
\* max_results; the database is not involved
web_search(d, max_results) ==
    {Outcome(d, [results |-> k]) : k \in 1..max_results}

(***************************************************************************)
(* A tool call as the tool wrappers run it (StructuredTool, crewai         *)
(* BaseTool): the arguments are validated against args_schema first, and   *)
(* arguments that do not validate give an error result without a call of   *)
(* the function.                                                           *)
(***************************************************************************)
ToolCall(tool, args) == [tool |-> tool, args |-> args]

invalid_arguments == [success |-> FALSE, error |-> "validation error"]

\* WebSearchInput.max_results: ge=1, le=10
valid_max_results(k) == 1 <= k /\ k <= 10

run_tool(d, call) ==
    CASE call.tool = "create_booking" ->
             IF call.args.booking_type \in BookingTypes
             THEN create_booking(d, call.args.booking_type, call.args.item_id)
             ELSE {Outcome(d, invalid_arguments)}
      [] call.tool = "query_database" -> query_database(d, call.args.query)
      [] call.tool = "web_search" ->
             IF valid_max_results(call.args.max_results)
             THEN web_search(d, call.args.max_results)
             ELSE {Outcome(d, invalid_arguments)}

\* the calls of one step, run one after the other: the databases they can
\* leave, each with the results in call order
RECURSIVE run_tools(_, _)
run_tools(d, calls) ==
    IF calls = <<>> THEN {[db |-> d, results |-> <<>>]}
    ELSE UNION {{[db |-> rest.db, results |-> <<first.result>> \o rest.results] :
                    rest \in run_tools(first.db, Tail(calls))} :
                first \in run_tool(d, calls[1])}

\* the arguments the models of the workflows may put into a call
ItemIds == 0..MaxItemId

ToolArgs(tool) ==
    CASE tool = "create_booking" ->
             {[booking_type |-> t, item_id |-> i] :
                 t \in BookingTypes \cup {"cruise"}, i \in ItemIds}
      [] tool = "query_database" -> {[query |-> q] : q \in ShortQueries}
      [] tool = "web_search" -> {[max_results |-> k] : k \in {0, 1}}

\* the calls, with their arguments, that a sequence of tool names can stand for
RECURSIVE CallsOf(_)
CallsOf(names) ==
    IF names = <<>> THEN {<<>>}
    ELSE {<<ToolCall(names[1], a)>> \o rest :
             a \in ToolArgs(names[1]), rest \in CallsOf(Tail(names))}

\* no tool call made yet
NoAct == [run |-> 0, node |-> "none", calls |-> <<>>, results |-> <<>>]

(***************************************************************************)
(* Routing.                                                                *)
(***************************************************************************)
\* variant of should_use_tools that tests the attribute for presence only
tool_calls_present(msgs) == Last(msgs).tool_calls.shape # "absent"

\* truth value of last_message.tool_calls behind the hasattr test
should_use_tools(msgs) ==
    LET tc == Last(msgs).tool_calls
    IN  CASE tc.shape = "absent" -> FALSE
          [] tc.shape = "list"   -> Len(tc.calls) > 0
          [] tc.shape = "dict"   -> TRUE

\* variant of task_router whose last branch returns "booker"
task_router_no_end(na) == IF na = "search" THEN "search" ELSE "booker"

\* state.get("next_agent", "end")
task_router(na) ==
    IF na = "search" THEN "search"
    ELSE IF na = "booker" THEN "booker"
    ELSE END

\* edges out of the search node: conditional in langgraph_vacation.py,
\* a plain edge to task in hybrid_vacation.py
search_edge(v, msgs) ==
    IF v = "langgraph"
    THEN (IF should_use_tools(msgs) THEN "search_tools" ELSE "task")
    ELSE "task"

booker_edge(msgs) == IF should_use_tools(msgs) THEN "booker_tools" ELSE "task"

\* variant of the tool executors' edges that hands control to the orchestrator
tools_edge_to_task(n) == "task"

\* add_edge("search_tools", "search"), add_edge("booker_tools", "booker")
tools_edge(n) == IF n = "search_tools" THEN "search" ELSE "booker"

\* the node the graph runs after node n, in the state the step left
next_node(v, n, msgs, na) ==
    CASE n = "task"   -> task_router(na)
      [] n = "search" -> search_edge(v, msgs)
      [] n = "booker" -> booker_edge(msgs)
      [] OTHER        -> tools_edge(n)

\* variant of BudgetLeft that allows one superstep more
BudgetLeft_one_more(s) == s <= recursion_limit

\* the loop runs a superstep only while the budget is not used up
BudgetLeft(s) == s < recursion_limit

\* the channels of VacationGraphState: messages is reduced by add_messages,
\* next_agent is overwritten by a node that returns it
\* variant of the messages channel declared without its reducer
overwrite_messages(left, right) == right

reduce_messages(left, right) == add_messages(left, right)

reduce_next_agent(old, new) == IF new = "absent" THEN old ELSE new

Init ==
    /\ variant \in Variants
    /\ messages = reduce_messages(<<>>, <<HumanMessage(<<"question">>, "none")>>)
    /\ next_agent = "none"
    /\ node = "task"
    /\ steps = 0
    /\ status = "running"
    /\ prev = "none"
    /\ decision = "none"
    /\ reply_calls = <<>>
    /\ invoked = <<>>
    /\ returned = {}
    /\ prompt = "none"
    /\ db = TravelDatabase
    /\ runs = <<>>
    /\ acted = NoAct
    /\ path = <<>>
    /\ threads = <<>>

Running(n) == status = "running" /\ node = n /\ BudgetLeft(steps)

(***************************************************************************)
(* A superstep of the graph: the update node n returned goes through the   *)
(* channel reducers, then the edge out of n picks the next node from the   *)
(* new state.  Routing to END leaves nothing to run and the stream ends;   *)
(* with a node still to run and the budget used up, the loop raises        *)
(* GraphRecursionError in place of running it.                             *)
(***************************************************************************)
Superstep(n, update) ==
    /\ messages' = reduce_messages(messages, update.messages)
    /\ next_agent' = reduce_next_agent(next_agent, update.next_agent)
    /\ node' = next_node(variant, n, messages', next_agent')
    /\ steps' = steps + 1
    /\ prev' = n
    /\ status' = IF node' = END THEN "done"
                 ELSE IF BudgetLeft(steps') THEN "running"
                 ELSE "recursion_error"

\* an exception leaves a node: app.stream re-raises it and main() reports it
Raise(kind) ==
    /\ status' = kind
    /\ UNCHANGED <<messages, next_agent, node, steps, prev>>

(***************************************************************************)
(* task_node: the orchestrator.  task_llm is the model with structured     *)
(* output TaskDelegation; a reply that does not parse or validate raises   *)
(* out of task_llm.invoke.                                                 *)
(***************************************************************************)
TaskOutcomes == Agents \cup {"parse_failure"}

\* variant of instruction_message that passes the reasoning on
instruction_message_reasoning(v) ==
    IF v = "langgraph"
    THEN HumanMessage(<<"reasoning">>, "task_orchestrator")
    ELSE AIMessage(<<"reasoning">>, "task_orchestrator", ListCalls(<<>>))

\* content=delegation.instruction: the text is the oracle's and is passed on
\* as it is; "instruction" stands for it, "reasoning" for delegation.reasoning
instruction_message(v) ==
    IF v = "langgraph"
    THEN HumanMessage(<<"instruction">>, "task_orchestrator")
    ELSE AIMessage(<<"instruction">>, "task_orchestrator", ListCalls(<<>>))

task_return(v, delegation) == Update(<<instruction_message(v)>>, delegation)

\* variant of task_prompt that takes the initial prompt for an empty log only
task_prompt_empty_log(msgs) ==
    IF Len(msgs) < 1 THEN "TASKER_INIT_PROMPT" ELSE "TASKER_CONT_PROMPT"

\* the system prompt put in front of the log handed to task_llm
task_prompt(msgs) ==
    IF Len(msgs) <= 1 THEN "TASKER_INIT_PROMPT" ELSE "TASKER_CONT_PROMPT"

\* variant of task_node that survives a reply it cannot parse: it returns no
\* update and leaves the routing to the state as it is
task_node_guess(outcome) ==
    /\ Running("task")
    /\ IF outcome = "parse_failure"
       THEN /\ Superstep("task", Update(<<>>, "absent"))
            /\ UNCHANGED decision
       ELSE /\ decision' = outcome
            /\ Superstep("task", task_return(variant, outcome))
    /\ prompt' = task_prompt(messages)
    /\ invoked' = <<>>
    /\ returned' = {}
    /\ UNCHANGED <<variant, reply_calls>>
    /\ UNCHANGED outside

task_node(outcome) ==
    /\ Running("task")
    /\ IF outcome = "parse_failure"
       THEN /\ Raise("parse_error")
            /\ UNCHANGED decision
       ELSE /\ decision' = outcome
            /\ Superstep("task", task_return(variant, outcome))
    /\ prompt' = task_prompt(messages)
    /\ invoked' = <<>>
    /\ returned' = {}
    /\ UNCHANGED <<variant, reply_calls>>
    /\ UNCHANGED outside

TaskNode ==
    /\ node = "task"
    /\ \E outcome \in TaskOutcomes : task_node(outcome)

\* what a tool call gives back to the step that made it
Results == {"payload", "error"}

\* the outcomes n calls can have between them
Outcomes(n) == {o \in SUBSET Results : Cardinality(o) <= n /\ (n > 0 => o # {})}

(***************************************************************************)
(* search_node.  langgraph: the reply of search_llm is returned as it is.  *)
(* hybrid: the crew agent answers the last message's content; it runs its  *)
(* tools inside kickoff and the answer comes back as text, wrapped in an   *)
(* AIMessage named "searcher".                                             *)
(***************************************************************************)
SearchReplies(v) == IF v = "langgraph" THEN SeqsUpTo(search_tools, MaxCalls) ELSE {<<>>}

\* the tools called inside the search step: searcher_agent.kickoff runs the
\* tools of the agent (QueryDatabaseTool, WebSearchTool) as its model asks;
\* search_llm.invoke calls none
agent_calls(v) == IF v = "hybrid" THEN SeqsUpTo(search_tools, MaxCalls) ELSE {<<>>}

\* variant of search_return whose hybrid message keeps the name of the
\* instruction it answers
search_return_unsigned(v, calls) ==
    IF v = "langgraph"
    THEN Update(<<AIMessage(<<"reply">>, "none", ListCalls(calls))>>, "absent")
    ELSE Update(<<AIMessage(<<"reply">>, "task_orchestrator", ListCalls(<<>>))>>, "absent")

search_return(v, calls) ==
    IF v = "langgraph"
    THEN Update(<<AIMessage(<<"reply">>, "none", ListCalls(calls))>>, "absent")
    ELSE Update(<<AIMessage(<<"reply">>, "searcher", ListCalls(<<>>))>>, "absent")

\* a tool result of the named tool is in the log
tool_result_in(msgs, tool) ==
    \E i \in 1..Len(msgs) : msgs[i].type = "tool" /\ msgs[i].name = tool

\* the messages that follow the latest message of the orchestrator
since_instruction(msgs) ==
    LET told == {i \in 1..Len(msgs) : msgs[i].name = "task_orchestrator"}
    IN  IF told = {} THEN msgs
        ELSE SubSeq(msgs, (CHOOSE i \in told : \A j \in told : j <= i) + 1, Len(msgs))

\* variant of search_prompt that looks at the tool results of the current
\* delegation only
search_prompt_latest(v, msgs) ==
    IF v = "hybrid" THEN "searcher_agent"
    ELSE IF tool_result_in(since_instruction(msgs), "web_search")
    THEN "RETURN_WEB_SEARCH_PROMPT"
    ELSE IF tool_result_in(since_instruction(msgs), "query_database")
    THEN "RETURN_QUERY_DATABASE_PROMPT"
    ELSE "SEARCH_PROMPT"

\* the system prompt of the search worker: chosen by the tool results in the
\* log in langgraph_vacation.py, the role and backstory of searcher_agent in
\* hybrid_vacation.py
search_prompt(v, msgs) ==
    IF v = "hybrid" THEN "searcher_agent"
    ELSE IF tool_result_in(msgs, "web_search") THEN "RETURN_WEB_SEARCH_PROMPT"
    ELSE IF tool_result_in(msgs, "query_database") THEN "RETURN_QUERY_DATABASE_PROMPT"
    ELSE "SEARCH_PROMPT"

search_node(calls) ==
    /\ Running("search")
    /\ IF variant = "hybrid" /\ Len(messages) = 0
       THEN /\ Raise("node_error")
            /\ UNCHANGED reply_calls
            /\ prompt' = "none"
            /\ invoked' = <<>>
            /\ returned' = {}
       ELSE /\ Superstep("search", search_return(variant, calls))
            /\ reply_calls' = calls
            /\ prompt' = search_prompt(variant, messages)
            /\ invoked' \in agent_calls(variant)
            /\ returned' \in Outcomes(Len(invoked'))
    /\ UNCHANGED <<variant, decision>>
    /\ UNCHANGED outside

SearchNode == \E calls \in SearchReplies(variant) : search_node(calls)

(***************************************************************************)
(* booker_node.  langgraph: the reply of booking_llm is returned as it is. *)
(* hybrid: the node first looks for an orchestrator message among the last *)
(* eight; without one it returns a fixed message and asks no model.  With  *)
(* one it asks booking_llm: no tool call gives a HumanMessage, more than   *)
(* one stores the first call (the dict calls[0], not a list) in tool_calls *)
(* and adds a note to the content.                                         *)
(***************************************************************************)
\* variant of fresh_instruction that looks through the whole log
fresh_instruction_whole_log(msgs) ==
    \E i \in 1..Len(msgs) : msgs[i].name = "task_orchestrator"

\* "task_orchestrator" in [message.name for message in messages[-8:]]
fresh_instruction(msgs) ==
    \E i \in 1..Len(Tail_n(msgs, GuardWindow)) :
        Tail_n(msgs, GuardWindow)[i].name = "task_orchestrator"

\* whether booker_node reaches booking_llm.invoke
asks_model(v, msgs) == v = "langgraph" \/ fresh_instruction(msgs)

BookerReplies(v, msgs) ==
    IF asks_model(v, msgs) THEN SeqsUpTo(booking_tools, MaxCalls) ELSE {<<>>}

FYI == "FYI only the first tool call was used"

hybrid_booker_reply(calls) ==
    IF Len(calls) = 0
    THEN HumanMessage(<<"No tool calls found">>, "none")
    ELSE IF Len(calls) > 1
    THEN AIMessage(<<"reply", FYI>>, "none",
                   [shape |-> "dict", calls |-> <<calls[1]>>])
    ELSE AIMessage(<<"reply">>, "none", ListCalls(calls))

\* variant of corrective_message without the name of its producer
corrective_message_untagged ==
    AIMessage(<<"I couldn't complete the given task, please rethink and try again">>,
              "none", ListCalls(<<>>))

corrective_message ==
    AIMessage(<<"I couldn't complete the given task, please rethink and try again">>,
              "booker", ListCalls(<<>>))

\* variant of booker_return whose update also carries a next_agent key
booker_return_sets_next_agent(v, msgs, calls) ==
    Update(<<AIMessage(<<"reply">>, "none", ListCalls(calls))>>, "end")

booker_return(v, msgs, calls) ==
    IF v = "langgraph"
    THEN Update(<<AIMessage(<<"reply">>, "none", ListCalls(calls))>>, "absent")
    ELSE IF ~fresh_instruction(msgs)
    THEN Update(<<corrective_message>>, "absent")
    ELSE Update(<<hybrid_booker_reply(calls)>>, "absent")

\* the system prompt of the booking worker, when it asks its model
booker_prompt(v, msgs) == IF asks_model(v, msgs) THEN "BOOKER_PROMPT" ELSE "none"

booker_node(calls) ==
    /\ Running("booker")
    /\ Superstep("booker", booker_return(variant, messages, calls))
    /\ reply_calls' = calls
    /\ prompt' = booker_prompt(variant, messages)
    /\ invoked' = <<>>
    /\ returned' = {}
    /\ UNCHANGED <<variant, decision>>
    /\ UNCHANGED outside

BookerNode == \E calls \in BookerReplies(variant, messages) : booker_node(calls)

(***************************************************************************)
(* ToolNode(tools): runs every tool call of the last message and returns   *)
(* one ToolMessage per call, named after the tool, whose content is what   *)
(* the call returned: its payload, or the error text when the call failed. *)
(* The log keeps the content as "result"; returned keeps which of the two   *)
(* occurred among the calls of the step.                                   *)
(* A tool_calls attribute that holds a dict is iterated by its keys, which *)
(* are no tool calls: the node raises.                                     *)
(***************************************************************************)
tool_return(calls) ==
    Update([i \in 1..Len(calls) |-> ToolMessage(<<"result">>, calls[i])], "absent")

tool_node(n) ==
    /\ Running(n)
    /\ LET tc == Last(messages).tool_calls
       IN  IF tc.shape = "list"
           THEN /\ Superstep(n, tool_return(tc.calls))
                /\ invoked' = tc.calls
                /\ returned' \in Outcomes(Len(tc.calls))
           ELSE /\ Raise("node_error")
                /\ invoked' = <<>>
                /\ returned' = {}
    /\ prompt' = "none"
    /\ UNCHANGED <<variant, decision, reply_calls>>
    /\ UNCHANGED outside

\* search_tool_node = ToolNode(search_tools), a node of langgraph_vacation.py
SearchTools ==
    /\ node = "search_tools"
    /\ tool_node("search_tools")

\* booking_tool_node = ToolNode(booking_tools), a node of both workflows
BookerTools ==
    /\ node = "booker_tools"
    /\ tool_node("booker_tools")

Next ==
    \/ TaskNode
    \/ SearchNode
    \/ BookerNode
    \/ SearchTools
    \/ BookerTools

Spec == Init /\ [][Next]_vars

(***************************************************************************)
(* A run whose orchestrator decides "search" on every invocation.          *)
(***************************************************************************)
TaskNodeSearch ==
    /\ node = "task"
    /\ task_node("search")

NextAlwaysSearch ==
    \/ TaskNodeSearch
    \/ SearchNode
    \/ SearchTools

SpecAlwaysSearch == Init /\ [][NextAlwaysSearch]_vars

(***************************************************************************)
(* The tool functions of shared_tools called directly on the database of   *)
(* the module, in any order and with any arguments of their types.         *)
(***************************************************************************)
graph == <<variant, messages, next_agent, node, steps, status, prev,
           decision, reply_calls, invoked, returned, prompt>>

workflow == <<graph, path, threads>>

\* no graph state of a single run is tracked
NoGraph ==
    /\ variant = "none"
    /\ messages = <<>>
    /\ next_agent = "none"
    /\ node = "none"
    /\ steps = 0
    /\ status = "none"
    /\ prev = "none"
    /\ decision = "none"
    /\ reply_calls = <<>>
    /\ invoked = <<>>
    /\ returned = {}
    /\ prompt = "none"

\* no single workflow run is tracked, and no thread inside create_booking
NoWorkflow ==
    /\ NoGraph
    /\ path = <<>>
    /\ threads = <<>>

InitTools ==
    /\ db = TravelDatabase
    /\ acted = NoAct
    /\ runs = <<>>
    /\ NoWorkflow

\* one direct call: what it did to the database and what it returned
Called(call, outcome) ==
    /\ db' = outcome.db
    /\ acted' = [run |-> 0, node |-> "none", calls |-> <<call>>,
                 results |-> <<outcome.result>>]
    /\ UNCHANGED <<runs, workflow>>

QueryDatabase ==
    \E query \in Queries :
        \E outcome \in query_database(db, query) :
            Called(ToolCall("query_database", [query |-> query]), outcome)

CreateBooking ==
    \E booking_type \in BookingTypes, item_id \in ItemIds :
        \E outcome \in create_booking(db, booking_type, item_id) :
            Called(ToolCall("create_booking",
                              [booking_type |-> booking_type, item_id |-> item_id]),
                   outcome)

WebSearch ==
    \E max_results \in 1..2 :
        \E outcome \in web_search(db, max_results) :
            Called(ToolCall("web_search", [max_results |-> max_results]), outcome)

NextTools ==
    \/ QueryDatabase
    \/ CreateBooking
    \/ WebSearch

SpecTools == InitTools /\ [][NextTools]_vars

(***************************************************************************)
(* Two workflow runs in one process: main() started twice, e.g. on two     *)
(* threads.  Each run has the graph state of its own app.stream call and   *)
(* its own step counter; db of shared_tools is the one object of the       *)
(* module for both, and here the tools act on it.  The runs take their     *)
(* supersteps in any order; the first MaxRunSteps steps of each run are    *)
(* followed, with replies of at most MaxRunCalls tool calls.               *)
(***************************************************************************)
Runs == 1..2

\* app.stream({"messages": [HumanMessage(content = question)]}, ...) and
\* state = 0 of main()
new_run(v) ==
    [variant |-> v,
     messages |-> reduce_messages(<<>>, <<HumanMessage(<<"question">>, "none")>>),
     next_agent |-> "none", node |-> "task", steps |-> 0, status |-> "running"]

InitRuns ==
    /\ runs \in [Runs -> {new_run(v) : v \in Variants}]
    /\ db = TravelDatabase
    /\ acted = NoAct
    /\ NoWorkflow

\* the replies of a model in the interleaved runs: those of at most
\* MaxRunCalls tool calls
short(replies) == {calls \in replies : Len(calls) <= MaxRunCalls}

\* run r is about to execute node n
run_ready(r, n) ==
    /\ runs[r].status = "running"
    /\ runs[r].node = n
    /\ BudgetLeft(runs[r].steps)
    /\ runs[r].steps < MaxRunSteps

\* the graph state of a run after the superstep in which node n returned update
superstep(s, n, update) ==
    LET msgs == reduce_messages(s.messages, update.messages)
        na == reduce_next_agent(s.next_agent, update.next_agent)
        nn == next_node(s.variant, n, msgs, na)
    IN  [s EXCEPT !.messages = msgs, !.next_agent = na, !.node = nn,
                  !.steps = @ + 1,
                  !.status = IF nn = END THEN "done"
                             ELSE IF BudgetLeft(s.steps + 1) THEN "running"
                             ELSE "recursion_error"]

\* the graph state of a run that an exception ended
raised(s, kind) == [s EXCEPT !.status = kind]

\* run r took a step in node n that called no tool
NoToolStep(r, n) ==
    /\ acted' = [run |-> r, node |-> n, calls |-> <<>>, results |-> <<>>]
    /\ db' = db

\* run r took a step in node n that made the calls, one after the other
ToolStep(r, n, calls) ==
    \E outcome \in run_tools(db, calls) :
        /\ acted' = [run |-> r, node |-> n, calls |-> calls,
                     results |-> outcome.results]
        /\ db' = outcome.db

\* variant of RunTask that keeps the graph state in one place for all runs
RunTask_shared_state(r) ==
    /\ run_ready(r, "task")
    /\ \E outcome \in Agents :
          runs' = [other \in Runs |->
                      superstep(runs[r], "task", task_return(runs[r].variant, outcome))]
    /\ NoToolStep(r, "task")
    /\ UNCHANGED workflow

RunTask(r) ==
    /\ run_ready(r, "task")
    /\ \E outcome \in TaskOutcomes :
          runs' = [runs EXCEPT ![r] =
                      IF outcome = "parse_failure"
                      THEN raised(@, "parse_error")
                      ELSE superstep(@, "task", task_return(@.variant, outcome))]
    /\ NoToolStep(r, "task")
    /\ UNCHANGED workflow

\* search_node; the crew agent of hybrid_vacation.py calls its tools
\* (QueryDatabaseTool, WebSearchTool) inside kickoff
RunSearch(r) ==
    /\ run_ready(r, "search")
    /\ IF runs[r].variant = "langgraph"
       THEN /\ \E calls \in short(SearchReplies("langgraph")) :
                  runs' = [runs EXCEPT ![r] =
                              superstep(@, "search", search_return(@.variant, calls))]
            /\ NoToolStep(r, "search")
       ELSE /\ runs' = [runs EXCEPT ![r] =
                           superstep(@, "search", search_return(@.variant, <<>>))]
            /\ \E names \in short(agent_calls("hybrid")) :
                  \E calls \in CallsOf(names) : ToolStep(r, "search", calls)
    /\ UNCHANGED workflow

RunBooker(r) ==
    /\ run_ready(r, "booker")
    /\ \E calls \in short(BookerReplies(runs[r].variant, runs[r].messages)) :
          runs' = [runs EXCEPT ![r] =
                      superstep(@, "booker", booker_return(@.variant, @.messages, calls))]
    /\ NoToolStep(r, "booker")
    /\ UNCHANGED workflow

\* variant of run_tool_node that lets a failed call end the run
run_tool_node_raising(r, n) ==
    /\ run_ready(r, n)
    /\ LET tc == Last(runs[r].messages).tool_calls
       IN  IF tc.shape = "list"
           THEN \E calls \in CallsOf(tc.calls) :
                    /\ ToolStep(r, n, calls)
                    /\ runs' = [runs EXCEPT ![r] =
                                   IF \E i \in 1..Len(calls) :
                                          /\ "success" \in DOMAIN acted'.results[i]
                                          /\ ~acted'.results[i].success
                                   THEN raised(@, "node_error")
                                   ELSE superstep(@, n, tool_return(tc.calls))]
           ELSE /\ runs' = [runs EXCEPT ![r] = raised(@, "node_error")]
                /\ NoToolStep(r, n)
    /\ UNCHANGED workflow

\* ToolNode(search_tools) / ToolNode(booking_tools) as node n of run r
run_tool_node(r, n) ==
    /\ run_ready(r, n)
    /\ LET tc == Last(runs[r].messages).tool_calls
       IN  IF tc.shape = "list"
           THEN /\ runs' = [runs EXCEPT ![r] = superstep(@, n, tool_return(tc.calls))]
                /\ \E calls \in CallsOf(tc.calls) : ToolStep(r, n, calls)
           ELSE /\ runs' = [runs EXCEPT ![r] = raised(@, "node_error")]
                /\ NoToolStep(r, n)
    /\ UNCHANGED workflow

RunSearchTools(r) ==
    /\ runs[r].node = "search_tools"
    /\ run_tool_node(r, "search_tools")

RunBookerTools(r) ==
    /\ runs[r].node = "booker_tools"
    /\ run_tool_node(r, "booker_tools")

NextRuns ==
    \/ \E r \in Runs : RunTask(r)
    \/ \E r \in Runs : RunSearch(r)
    \/ \E r \in Runs : RunBooker(r)
    \/ \E r \in Runs : RunSearchTools(r)
    \/ \E r \in Runs : RunBookerTools(r)

SpecRuns == InitRuns /\ [][NextRuns]_vars

(***************************************************************************)
(* One workflow run with its tools acting on the database: main() from     *)
(* its first step to its end, the replies of the models being of at most   *)
(* MaxRunCalls tool calls.  path keeps the nodes whose steps completed.    *)
(***************************************************************************)
\* what a tool call that returned result gave back: its payload or an error
result_kind(result) ==
    IF "success" \in DOMAIN result /\ ~result.success THEN "error" ELSE "payload"

\* the step of node n completed
Completed(n) == path' = Append(path, n)

\* the step of node n called no tool
NoTools(n) ==
    /\ invoked' = <<>>
    /\ returned' = {}
    /\ acted' = [run |-> 0, node |-> n, calls |-> <<>>, results |-> <<>>]
    /\ db' = db

\* the step of node n ran the calls on the database, one after the other
Tools(n, calls) ==
    \E outcome \in run_tools(db, calls) :
        /\ invoked' = [i \in 1..Len(calls) |-> calls[i].tool]
        /\ returned' = {result_kind(outcome.results[i]) : i \in 1..Len(calls)}
        /\ acted' = [run |-> 0, node |-> n, calls |-> calls, results |-> outcome.results]
        /\ db' = outcome.db

TripTask ==
    /\ Running("task")
    /\ \E outcome \in TaskOutcomes :
          IF outcome = "parse_failure"
          THEN /\ Raise("parse_error")
               /\ UNCHANGED <<decision, path>>
          ELSE /\ decision' = outcome
               /\ Superstep("task", task_return(variant, outcome))
               /\ Completed("task")
    /\ prompt' = task_prompt(messages)
    /\ NoTools("task")
    /\ UNCHANGED <<variant, reply_calls, runs, threads>>

TripSearch ==
    /\ Running("search")
    /\ IF variant = "langgraph"
       THEN /\ \E calls \in short(SearchReplies("langgraph")) :
                  /\ Superstep("search", search_return(variant, calls))
                  /\ reply_calls' = calls
            /\ prompt' = search_prompt(variant, messages)
            /\ Completed("search")
            /\ NoTools("search")
       ELSE IF Len(messages) = 0
       THEN /\ Raise("node_error")
            /\ prompt' = "none"
            /\ NoTools("search")
            /\ UNCHANGED <<reply_calls, path>>
       ELSE /\ Superstep("search", search_return(variant, <<>>))
            /\ reply_calls' = <<>>
            /\ prompt' = search_prompt(variant, messages)
            /\ Completed("search")
            /\ \E names \in short(agent_calls("hybrid")) :
                  \E calls \in CallsOf(names) : Tools("search", calls)
    /\ UNCHANGED <<variant, decision, runs, threads>>

TripBooker ==
    /\ Running("booker")
    /\ \E calls \in short(BookerReplies(variant, messages)) :
          /\ Superstep("booker", booker_return(variant, messages, calls))
          /\ reply_calls' = calls
    /\ prompt' = booker_prompt(variant, messages)
    /\ Completed("booker")
    /\ NoTools("booker")
    /\ UNCHANGED <<variant, decision, runs, threads>>

\* variant of trip_tool_node that undoes the bookings of the run when a call
\* of the step fails
trip_tool_node_rollback(n) ==
    /\ Running(n)
    /\ LET tc == Last(messages).tool_calls
       IN  IF tc.shape = "list"
           THEN /\ Superstep(n, tool_return(tc.calls))
                /\ Completed(n)
                /\ \E calls \in CallsOf(tc.calls) :
                      \E outcome \in run_tools(db, calls) :
                          /\ invoked' = tc.calls
                          /\ returned' = {result_kind(outcome.results[i]) :
                                             i \in 1..Len(calls)}
                          /\ acted' = [run |-> 0, node |-> n, calls |-> calls,
                                       results |-> outcome.results]
                          /\ db' = IF "error" \in returned'
                                   THEN [outcome.db EXCEPT !.bookings = <<>>]
                                   ELSE outcome.db
           ELSE /\ Raise("node_error")
                /\ NoTools(n)
                /\ UNCHANGED path
    /\ prompt' = "none"
    /\ UNCHANGED <<variant, decision, reply_calls, runs, threads>>

\* ToolNode(search_tools) / ToolNode(booking_tools) as node n of the run
trip_tool_node(n) ==
    /\ Running(n)
    /\ LET tc == Last(messages).tool_calls
       IN  IF tc.shape = "list"
           THEN /\ Superstep(n, tool_return(tc.calls))
                /\ Completed(n)
                /\ \E calls \in CallsOf(tc.calls) : Tools(n, calls)
           ELSE /\ Raise("node_error")
                /\ NoTools(n)
                /\ UNCHANGED path
    /\ prompt' = "none"
    /\ UNCHANGED <<variant, decision, reply_calls, runs, threads>>

TripSearchTools ==
    /\ node = "search_tools"
    /\ trip_tool_node("search_tools")

TripBookerTools ==
    /\ node = "booker_tools"
    /\ trip_tool_node("booker_tools")

NextTrip ==
    \/ TripTask
    \/ TripSearch
    \/ TripBooker
    \/ TripSearchTools
    \/ TripBookerTools

SpecTrip == Init /\ [][NextTrip]_vars

(***************************************************************************)
(* TravelDatabase.create_booking called on two threads at once.  db is the *)
(* one object of the module and holds one connection, opened with          *)
(* check_same_thread=False and used without a lock, so the statements of   *)
(* the two calls interleave.  Each call is three steps: the SELECT of the   *)
(* price, the INSERT, and the rest of the call.  The rest begins with the  *)
(* cursor taking its lastrowid from sqlite3_last_insert_rowid of the       *)
(* connection, which it does after the INSERT has run and not as one step  *)
(* with it: an INSERT of the other thread in between moves that value.     *)
(***************************************************************************)
Threads == 1..2

idle == [pc |-> "idle"]

new_thread == [at |-> idle, results |-> <<>>]

InitBookings ==
    /\ threads = [t \in Threads |-> new_thread]
    /\ db = TravelDatabase
    /\ acted = NoAct
    /\ runs = <<>>
    /\ path = <<>>
    /\ NoGraph

\* thread t is back from a call with the result
return_booking(t, result) ==
    threads' = [threads EXCEPT ![t] = [at |-> idle, results |-> Append(@.results, result)]]

\* sqlite3_last_insert_rowid(conn): the id of the row the connection
\* inserted last
last_insert_rowid(d) == Len(d.bookings)

\* cursor.execute("SELECT base_price ...") / ("SELECT price_per_night ...")
\* and fetchone(); with a row, the price is kept and the confirmation number
\* drawn
SelectPrice(t) ==
    /\ threads[t].at.pc = "idle"
    /\ Len(threads[t].results) < MaxBookingCalls
    /\ \E booking_type \in {"flight", "hotel"}, item_id \in ItemIds :
          LET table == price_table(db, booking_type)
          IN  IF item_id \notin DOMAIN table
              THEN return_booking(t, [success |-> FALSE, error |-> "Item not found"])
              ELSE \E n \in randint(100000, 999999) :
                      threads' = [threads EXCEPT ![t].at =
                                     [pc |-> "insert", booking_type |-> booking_type,
                                      item_id |-> item_id,
                                      confirmation |-> CONF \o str(n),
                                      total_price |-> table[item_id]]]
    /\ UNCHANGED <<db, acted, runs, graph, path>>

\* cursor.execute("INSERT INTO bookings ...")
InsertBooking(t) ==
    /\ threads[t].at.pc = "insert"
    /\ LET at == threads[t].at
           outcome == insert_booking(db, booking_row(db, at.booking_type, at.item_id,
                                                     at.confirmation, at.total_price))
       IN  /\ db' = outcome.db
           /\ IF outcome.result.success
              THEN threads' = [threads EXCEPT ![t].at =
                                  [pc |-> "commit", row |-> outcome.result.booking_id,
                                   confirmation |-> at.confirmation,
                                   total_price |-> at.total_price]]
              ELSE return_booking(t, outcome.result)
    /\ UNCHANGED <<acted, runs, graph, path>>

\* the cursor stores sqlite3_last_insert_rowid(conn) as its lastrowid; then
\* self.conn.commit(); booking_id = cursor.lastrowid; return {...}
CommitBooking(t) ==
    /\ threads[t].at.pc = "commit"
    /\ return_booking(t, [success |-> TRUE, booking_id |-> last_insert_rowid(db),
                          confirmation_number |-> threads[t].at.confirmation,
                          total_price |-> threads[t].at.total_price,
                          status |-> "confirmed"])
    /\ UNCHANGED <<db, acted, runs, graph, path>>

NextBookings ==
    \/ \E t \in Threads : SelectPrice(t)
    \/ \E t \in Threads : InsertBooking(t)
    \/ \E t \in Threads : CommitBooking(t)

SpecBookings == InitBookings /\ [][NextBookings]_vars

(***************************************************************************)
(* Properties.                                                             *)
(***************************************************************************)
Workers == {"search", "booker"}

ToolNodes == {"search_tools", "booker_tools"}

ToolsOf(worker) == IF worker = "search" THEN "search_tools" ELSE "booker_tools"

\* the message carries at least one tool call (in a list, or as the single
\* call stored in place of the list)
CarriesToolCall(m) == m.tool_calls.shape # "absent" /\ Len(m.tool_calls.calls) > 0

\* the log before the latest step, when that step added one message
Before(msgs) == SubSeq(msgs, 1, Len(msgs) - 1)

\* one of the last k messages of msgs was produced by the orchestrator
OrchestratorAmongLast(msgs, k) ==
    \E i \in 1..Len(msgs) : i > Len(msgs) - k /\ msgs[i].name = "task_orchestrator"

\* C1: a run starts in task; after a task step the next node is search,
\* booker or END as next_agent is "search", "booker" or "end", and END is
\* entered after a task step only.
C1_TaskRoutesByNextAgent ==
    /\ prev = "none" => node = "task"
    /\ prev = "task" =>
          /\ next_agent \in Agents
          /\ next_agent = "search" => node = "search"
          /\ next_agent = "booker" => node = "booker"
          /\ next_agent = "end" => node = END
    /\ node = END => prev = "task"

C1_Witness == prev = "task" /\ next_agent = "end" /\ node = END /\ steps > 1

\* C2: after a search or booker step the next node is the worker's own tool
\* executor exactly when the latest message carries a tool call, else task.
C2_WorkerRoutesByToolCalls ==
    prev \in Workers =>
        node = IF CarriesToolCall(Last(messages)) THEN ToolsOf(prev) ELSE "task"

C2_Witness ==
    /\ prev = "booker"
    /\ variant = "hybrid"
    /\ CarriesToolCall(Last(messages))
    /\ node = "booker_tools"

\* C3: the message a booker step appends carries a tool call only if one of
\* the last 8 messages of the log the booker was entered with has producer
\* "task_orchestrator"; without one the booker appends the corrective message.
C3_BookerNeedsFreshInstruction ==
    prev = "booker" =>
        \/ OrchestratorAmongLast(Before(messages), GuardWindow)
        \/ /\ ~CarriesToolCall(Last(messages))
           /\ Last(messages).name = "booker"
           /\ Last(messages).content = corrective_message.content

\* C4: a run executes at most recursion_limit node steps and ends abnormally
\* only by an orchestrator parse failure or by exhausting the step budget.
C4_OnlyParseOrBudgetAborts ==
    /\ steps <= recursion_limit
    /\ status \in {"running", "done", "parse_error", "recursion_error"}

\* C5: when the orchestrator always decides "search", the run never reaches
\* END and ends only by the step-budget error, raised after exactly
\* recursion_limit steps; until then a node is left to run within the budget
\* and every step counts one step more, so the error is reached.
C5_AlwaysSearchExhaustsBudget ==
    /\ [](/\ node # END
          /\ status \in {"running", "recursion_error"}
          /\ steps <= recursion_limit
          /\ status = "recursion_error" => steps = recursion_limit
          /\ status = "running" =>
                 node \in {"task", "search", "search_tools"} /\ steps < recursion_limit)
    /\ [][steps' = steps + 1]_vars

C5_Witness ==
    /\ status = "recursion_error"
    /\ steps = recursion_limit
    /\ decision = "search"
    /\ node # END

\* C6: every step leaves the log it found as a prefix of the log it leaves,
\* and no step changes the log once END is reached.
C6_LogAppendOnly ==
    [][/\ IsPrefix(messages, messages')
       /\ node = END => messages' = messages]_vars

C6_Witness == node = END /\ Len(messages) >= 4

\* C7: when a worker's reply requests more than one tool call, the message
\* the worker appends carries the first call only and the note that only the
\* first call was used, and the tool executor calls that one tool only.
C7_OnlyFirstCallExecuted ==
    /\ prev \in Workers /\ Len(reply_calls) > 1 =>
           /\ Last(messages).tool_calls = ListCalls(<<reply_calls[1]>>)
           /\ \E i \in 1..Len(Last(messages).content) :
                  Last(messages).content[i] = FYI
    /\ Len(reply_calls) > 1 /\ node \in ToolNodes => status # "node_error"
    /\ prev \in ToolNodes /\ Len(reply_calls) > 1 => invoked = <<reply_calls[1]>>

C9_OnlyOrchestratorWritesNextAgent ==
    /\ [](decision # "none" => next_agent = decision)
    /\ [][next_agent' # next_agent => node = "task" /\ prev' = "task"]_vars

C9_Witness ==
    /\ prev = "booker_tools"
    /\ steps > 4
    /\ decision = "booker"
    /\ next_agent = "booker"

\* C10: after a tool executor step the next node is the worker that issued
\* the call, whatever the tools returned.
C10_ToolsReturnToWorker ==
    /\ prev = "search_tools" => node = "search"
    /\ prev = "booker_tools" => node = "booker"

C10_Witness ==
    /\ prev = "booker_tools"
    /\ "error" \in returned
    /\ node = "booker"

\* the latest call, when a tool function was called directly
TheCall == acted.calls[1]

TheResult == acted.results[1]

\* the table that holds the items of a booking type
ItemTable(d, booking_type) ==
    CASE booking_type = "flight" -> d.flights
      [] booking_type = "hotel" -> d.hotels
      [] booking_type = "attraction" -> d.attractions

\* C17: create_booking for a booking type in {flight, hotel, attraction} and
\* an item id that is not in the table of that type returns
\* {success: false, error: "Item not found"} and leaves the bookings table
\* as it was.
C17_UnknownItemNotFound ==
    [][acted'.calls # <<>> /\ acted'.calls[1].tool = "create_booking"
       /\ acted'.calls[1].args.item_id
              \notin DOMAIN ItemTable(db, acted'.calls[1].args.booking_type)
       => /\ acted'.results[1] = [success |-> FALSE, error |-> "Item not found"]
          /\ db'.bookings = db.bookings]_vars

\* C18: query_database with a text that, stripped and upper-cased, does not
\* start with SELECT returns {success: false, rows: [], row_count: 0,
\* error: "Only SELECT queries are allowed"} and leaves every table as it was.
C18_NonSelectRejected ==
    [][acted'.calls # <<>> /\ acted'.calls[1].tool = "query_database"
       /\ ~startswith(upper(strip(acted'.calls[1].args.query)), SELECT)
       => /\ acted'.results[1] = [success |-> FALSE, rows |-> <<>>, row_count |-> 0,
                                  error |-> "Only SELECT queries are allowed"]
          /\ db' = db]_vars

C18_Witness ==
    /\ acted.calls # <<>>
    /\ TheCall.tool = "query_database"
    /\ startswith(upper(strip(TheCall.args.query)), DROP)
    /\ Len(TheCall.args.query) > Len(DROP)
    /\ TheResult.error = "Only SELECT queries are allowed"
    /\ db.flights = flights_data
    /\ Len(db.bookings) > 1

C20_RunsAreIsolated ==
    [][\E r \in Runs :
          /\ acted'.run = r
          /\ \A other \in Runs \ {r} : runs'[other] = runs[other]]_vars

C20_Witness ==
    /\ acted.run = 2
    /\ acted.node = "booker_tools"
    /\ Len(db.bookings) = 2
    /\ runs[1].steps = 3
    /\ runs[1].messages # runs[2].messages

\* how many of the last k messages of msgs the orchestrator produced
OrchestratorCount(msgs, k) ==
    Cardinality({i \in 1..Len(msgs) :
                    i > Len(msgs) - k /\ msgs[i].name = "task_orchestrator"})

\* the run goes on: it is running, or it has used its last step
GoesOn == status = "running" \/ (status = "recursion_error" /\ steps = recursion_limit)

C12_ExactlyOneFreshInstruction ==
    variant = "hybrid" /\ prev = "booker" /\ CarriesToolCall(Last(messages))
        => OrchestratorCount(Before(messages), GuardWindow) = 1

\* C12, amended: whenever the booker of the guarded workflow appends a
\* message with a tool call, at least one of the last 8 messages of the log
\* it was entered with has producer "task_orchestrator".
C12_AtLeastOneFreshInstruction ==
    variant = "hybrid" /\ prev = "booker" /\ CarriesToolCall(Last(messages))
        => OrchestratorCount(Before(messages), GuardWindow) >= 1

C12_Witness ==
    /\ variant = "hybrid"
    /\ prev = "booker"
    /\ CarriesToolCall(Last(messages))
    /\ OrchestratorCount(Before(messages), GuardWindow) = 2

\* C13: a task step that does not fail appends exactly one message, with
\* producer "task_orchestrator" and the instruction of the decision as its
\* content, and sets next_agent to the next_agent of the decision, one of
\* search, booker, end.
C13_TaskAppendsInstruction ==
    [][node = "task" /\ status' # "parse_error"
       => /\ Len(messages') = Len(messages) + 1
          /\ SubSeq(messages', 1, Len(messages)) = messages
          /\ Last(messages').name = "task_orchestrator"
          /\ Last(messages').content = <<"instruction">>
          /\ decision' \in {"search", "booker", "end"}
          /\ next_agent' = decision']_vars

C13_Witness ==
    /\ prev = "task"
    /\ decision = "end"
    /\ next_agent = "end"
    /\ Last(messages).name = "task_orchestrator"
    /\ Len(messages) > 3

\* the producer names a worker signs with
ProducerNames(worker) == IF worker = "search" THEN {"search", "searcher"} ELSE {"booker"}

\* the worker of the latest step asked its model
ModelAsked ==
    \/ variant = "langgraph"
    \/ prev = "search"
    \/ OrchestratorAmongLast(Before(messages), GuardWindow)

\* C14: when the reply of a worker's model carries no tool call, the worker
\* appends that reply, content unchanged, under its own producer name, and
\* the next node is task.
C14_PlainReplyTagged ==
    prev \in Workers /\ ModelAsked /\ reply_calls = <<>>
        => /\ Last(messages).type = "ai"
           /\ Last(messages).content = <<"reply">>
           /\ Last(messages).name \in ProducerNames(prev)
           /\ node = "task"

\* C15: a tool executor step appends exactly one message: a tool result
\* named after the tool that was called.
C15_OneToolResult ==
    [][(node \in ToolNodes)
       => /\ Len(messages') = Len(messages) + 1
          /\ SubSeq(messages', 1, Len(messages)) = messages
          /\ returned' # {}
          /\ invoked' = <<Last(messages').name>>
          /\ Last(messages').type = "tool"]_vars

\* the call failed: it returned a failure in place of a payload
Failed(result) == "success" \in DOMAIN result /\ ~result.success

\* the latest step was a tool executor step with a failed call
FailedToolStep ==
    /\ acted.node \in ToolNodes
    /\ \E i \in 1..Len(acted.results) : Failed(acted.results[i])

\* C16: after a tool executor step with a failed call (invalid arguments, a
\* rejected or failing statement, an unknown item, a rejected insert) the run
\* is still running, its log ends with one tool result per call, named after
\* the tool, and its next node is the worker that issued the calls.
C16_ToolFailureIsRecorded ==
    FailedToolStep =>
        LET run == runs[acted.run]
            n == Len(run.messages)
            k == Len(acted.calls)
        IN  /\ run.status = "running"
            /\ run.node = IF acted.node = "search_tools" THEN "search" ELSE "booker"
            /\ n > k
            /\ \A i \in 1..k :
                   /\ run.messages[n - k + i].type = "tool"
                   /\ run.messages[n - k + i].name = acted.calls[i].tool
            /\ CarriesToolCall(run.messages[n - k])

C16_Witness ==
    /\ FailedToolStep
    /\ acted.node = "booker_tools"
    /\ \E i \in 1..Len(acted.results) :
           Failed(acted.results[i]) /\ acted.results[i].error = "sqlite3.Error"
    /\ runs[acted.run].node = "booker"
    /\ runs[acted.run].status = "running"

\* the latest step asked the model of the orchestrator
TaskAsked == prev = "task" \/ status = "parse_error"

\* the log that step found
TaskLog == IF status = "parse_error" THEN messages ELSE Before(messages)

\* no task step was taken before it
FirstTask == IF status = "parse_error" THEN steps = 0 ELSE steps = 1

\* C22: the orchestrator takes the initial prompt exactly when the log holds
\* at most one message and the continuation prompt otherwise; in a run started
\* with one user message the initial prompt is taken on the first invocation
\* of the orchestrator and on no later one.
C22_InitialPromptOnce ==
    TaskAsked =>
        /\ prompt \in {"TASKER_INIT_PROMPT", "TASKER_CONT_PROMPT"}
        /\ prompt = "TASKER_INIT_PROMPT" <=> Len(TaskLog) <= 1
        /\ prompt = "TASKER_INIT_PROMPT" <=> FirstTask

C22_Witness ==
    /\ prev = "task"
    /\ steps = 3
    /\ Len(messages) = 4
    /\ prompt = "TASKER_CONT_PROMPT"

\* the log holds the result of a call of the tool
HasResultOf(msgs, tool) ==
    \E i \in 1..Len(msgs) : msgs[i].type = "tool" /\ msgs[i].name = tool

\* the index of the latest message of the orchestrator in the log (0: none)
LatestInstruction(msgs) ==
    LET told == {i \in 1..Len(msgs) : msgs[i].name = "task_orchestrator"}
    IN  IF told = {} THEN 0 ELSE CHOOSE i \in told : \A j \in told : j <= i

SinceInstruction(msgs) == Len(msgs) - LatestInstruction(msgs)

\* how many of them are results of create_booking
BookingRounds(msgs) ==
    Cardinality({i \in 1..Len(msgs) :
                    /\ i > LatestInstruction(msgs)
                    /\ msgs[i].type = "tool"
                    /\ msgs[i].name = "create_booking"})

\* the latest step was a booker step, and it refused
Refused ==
    /\ Last(messages).name = "booker"
    /\ Last(messages).content =
           <<"I couldn't complete the given task, please rethink and try again">>
    /\ prompt = "none"

\* C25: in the guarded workflow the messages between an instruction of the
\* orchestrator and a booker entry are booker tool rounds of two messages
\* each (a reply with one tool call, its result); the booker refuses exactly
\* when at least 8 messages, that is 4 rounds, follow the instruction, never
\* when it is entered from task, and after the refusal the next node is task:
\* one delegation leads to at most 4 create_booking calls.
C25_FourRoundsThenRefusal ==
    variant = "hybrid" =>
        /\ BookingRounds(messages) <= 4
        /\ prev = "booker" /\ ~TaskAsked =>
               LET log == Before(messages)
               IN  /\ SinceInstruction(log) = 2 * BookingRounds(log)
                   /\ Refused <=> SinceInstruction(log) >= GuardWindow
                   /\ Refused <=> BookingRounds(log) >= 4
                   /\ SinceInstruction(log) = 0 => ~Refused
                   /\ Refused => node = "task"

C25_Witness ==
    /\ variant = "hybrid"
    /\ prev = "booker"
    /\ Refused
    /\ BookingRounds(Before(messages)) = 4
    /\ SinceInstruction(Before(messages)) = 8
    /\ node = "task"

\* C29: in the hybrid workflow the search node finds a log that is not empty
\* and ends with the instruction of the orchestrator, so the step never ends
\* with the "No messages found" error; it appends exactly one message, with
\* producer "searcher" and no tool call.
C29_HybridSearchAnswersInstruction ==
    [][variant = "hybrid" /\ node = "search"
       => /\ Len(messages) > 0
          /\ Last(messages).name = "task_orchestrator"
          /\ Last(messages).content = <<"instruction">>
          /\ status' # "node_error"
          /\ Len(messages') = Len(messages) + 1
          /\ SubSeq(messages', 1, Len(messages)) = messages
          /\ Last(messages').name = "searcher"
          /\ ~CarriesToolCall(Last(messages'))
          /\ prompt' = "searcher_agent"]_vars

C29_Witness ==
    /\ variant = "hybrid"
    /\ prev = "search"
    /\ ~TaskAsked
    /\ Last(messages).name = "searcher"
    /\ Before(messages)[Len(messages) - 1].name = "task_orchestrator"
    /\ Len(messages) > 4
    /\ invoked # <<>>

Digits == {"0", "1", "2", "3", "4", "5", "6", "7", "8", "9"}

\* the text is CONF- followed by six decimal digits
IsConfirmation(text) ==
    /\ Len(text) = 11
    /\ SubSeq(text, 1, 5) = <<"C", "O", "N", "F", "-">>
    /\ \A i \in 6..11 : text[i] \in Digits

\* call i of the latest step was a create_booking that returned success
Booked(a, i) ==
    /\ a.calls[i].tool = "create_booking"
    /\ "success" \in DOMAIN a.results[i]
    /\ a.results[i].success

\* C23: every create_booking that returns success, for a flight, a hotel or
\* an attraction, returns a confirmation number made of "CONF-" and exactly
\* six decimal digits.
C23_ConfirmationFormat ==
    \A i \in 1..Len(acted.calls) :
        Booked(acted, i) => IsConfirmation(acted.results[i].confirmation_number)

C23_Witness ==
    /\ acted.calls # <<>>
    /\ Booked(acted, 1)
    /\ TheCall.args.booking_type = "hotel"
    /\ TheResult.confirmation_number = <<"C", "O", "N", "F", "-", "1", "0", "0", "0", "0", "0">>
    /\ Len(db.bookings) = 2

\* C26: a create_booking call, for a flight, a hotel or an attraction, that
\* returns success adds exactly one row to the bookings table, whose id,
\* confirmation number and price are the returned ones; a call that returns
\* failure leaves the table as it was.
C26_BookingRowIffSuccess ==
    [][acted'.calls # <<>> /\ acted'.calls[1].tool = "create_booking"
       => IF acted'.results[1].success
          THEN /\ Len(db'.bookings) = Len(db.bookings) + 1
               /\ SubSeq(db'.bookings, 1, Len(db.bookings)) = db.bookings
               /\ Last(db'.bookings).booking_id = acted'.results[1].booking_id
               /\ Last(db'.bookings).confirmation_number =
                      acted'.results[1].confirmation_number
               /\ Last(db'.bookings).total_price = acted'.results[1].total_price
               /\ Last(db'.bookings).booking_type = acted'.calls[1].args.booking_type
          ELSE db'.bookings = db.bookings]_vars

\* C28: the rows of the bookings table have pairwise different confirmation
\* numbers; a create_booking whose number is taken returns failure and adds
\* no row; and no create_booking that returns success returns the number the
\* successful create_booking before it returned.
C28_ConfirmationsUnique ==
    /\ [](\A i, j \in 1..Len(db.bookings) :
             i # j => db.bookings[i].confirmation_number # db.bookings[j].confirmation_number)
    /\ [][acted'.calls # <<>> /\ acted'.calls[1].tool = "create_booking"
          => /\ ~acted'.results[1].success /\ acted'.results[1].error = "sqlite3.Error"
                    => db'.bookings = db.bookings /\ db.bookings # <<>>
             /\ acted.calls # <<>> /\ Booked(acted, 1) /\ Booked(acted', 1)
                    => acted'.results[1].confirmation_number #
                           acted.results[1].confirmation_number]_vars

\* the successful results thread t has got back
Booking(t, i) == threads[t].results[i]

Succeeded(t) == {i \in 1..Len(threads[t].results) : Booking(t, i).success}

\* the rows of the bookings table with the confirmation number
RowsOf(confirmation) ==
    {k \in 1..Len(db.bookings) : db.bookings[k].confirmation_number = confirmation}

\* C27: however the create_booking calls of two threads on the shared
\* connection interleave, each call that returns success has exactly one row
\* of its own in the bookings table, the booking_id it returns is the id of
\* that row, and it differs from every booking_id returned to the other
\* thread.
C27_ConcurrentBookingsKeepIds ==
    /\ \A t \in Threads : \A i \in Succeeded(t) :
           /\ Cardinality(RowsOf(Booking(t, i).confirmation_number)) = 1
           /\ \A k \in RowsOf(Booking(t, i).confirmation_number) :
                  db.bookings[k].booking_id = Booking(t, i).booking_id
    /\ \A i \in Succeeded(1), j \in Succeeded(2) :
           Booking(1, i).booking_id # Booking(2, j).booking_id

\* C21: a row that a successful create_booking added to the bookings table
\* stays in the table, unchanged, through every later step of the run: a tool
\* step with a failed call, a refusal of the booker, the step that uses up
\* the budget, the step that reaches END.
C21_NoRollback ==
    [][IsPrefix(db.bookings, db'.bookings)]_vars

C21_Witness ==
    /\ variant = "hybrid"
    /\ prev = "booker"
    /\ Refused
    /\ node = "task"
    /\ Len(db.bookings) = 1
    /\ db.bookings[1].booking_type = "flight"
    /\ Len(path) = 10

\* the nodes of the end-to-end run, in order
TripPath ==
    <<"task", "search", "search_tools", "search", "task",
      "booker", "booker_tools", "booker", "task">>

\* the log of the end-to-end run in the langgraph workflow: the question,
\* and what the oracle of the claim makes the nodes add
TripLog ==
    reduce_messages(<<>>,
        <<HumanMessage(<<"question">>, "none"),
          HumanMessage(<<"instruction">>, "task_orchestrator"),
          AIMessage(<<"reply">>, "none", ListCalls(<<"query_database">>)),
          ToolMessage(<<"result">>, "query_database"),
          AIMessage(<<"reply">>, "none", ListCalls(<<>>)),
          HumanMessage(<<"instruction">>, "task_orchestrator"),
          AIMessage(<<"reply">>, "none", ListCalls(<<"create_booking">>)),
          ToolMessage(<<"result">>, "create_booking"),
          AIMessage(<<"reply">>, "none", ListCalls(<<>>)),
          HumanMessage(<<"instruction">>, "task_orchestrator")>>)

\* what the orchestrator of the claim has decided last after k steps
TripDecision(k) ==
    IF k = 0 THEN "none" ELSE IF k < 5 THEN "search" ELSE IF k < 9 THEN "booker" ELSE "end"

\* the oracle has answered as the claim says, for the k steps taken so far
OnTrip(k, msgs, decided) ==
    /\ k <= Len(TripPath)
    /\ msgs = SubSeq(TripLog, 1, k + 1)
    /\ decided = TripDecision(k)

\* the create_booking call of the run named a flight of the flights table
ValidFlight(call) ==
    /\ call.tool = "create_booking"
    /\ call.args.booking_type = "flight"
    /\ call.args.item_id \in DOMAIN flights_data

\* C24: in the langgraph workflow, with an oracle that delegates to search,
\* asks for one database query, answers, delegates to booker, asks for one
\* create_booking of a valid flight, answers and decides end, the nodes run
\* are task, search, search_tools, search, task, booker, booker_tools,
\* booker, task and then END; the create_booking call succeeds and adds the
\* one booking row of the run, which is there at the end; the run ends
\* normally after 9 steps, within the budget.
C24_EndToEndRun ==
    /\ [](variant = "langgraph" /\ status # "parse_error"
          /\ OnTrip(Len(path), messages, decision) =>
             LET k == Len(path)
             IN  /\ path = SubSeq(TripPath, 1, k)
                 /\ steps = k
                 /\ node = IF k < Len(TripPath) THEN TripPath[k + 1] ELSE END
                 /\ status = IF k < Len(TripPath) THEN "running" ELSE "done"
                 /\ k <= recursion_limit
                 /\ k < 7 => db.bookings = <<>>
                 /\ Len(db.bookings) <= 1
                 /\ k = 7 /\ ValidFlight(acted.calls[1]) =>
                        /\ acted.results[1].success
                        /\ Len(db.bookings) = 1
                        /\ db.bookings[1].booking_id = acted.results[1].booking_id
                        /\ db.bookings[1].item_id = acted.calls[1].args.item_id)
    /\ [][variant = "langgraph" /\ Len(path) >= 7 /\ status' # "parse_error"
          /\ OnTrip(Len(path'), messages', decision')
          => db' = db]_vars

C24_Witness ==
    /\ variant = "langgraph"
    /\ path = TripPath
    /\ messages = TripLog
    /\ node = END
    /\ status = "done"
    /\ steps = 9
    /\ Len(db.bookings) = 1
    /\ db.bookings[1].booking_type = "flight"
    /\ db.bookings[1].item_id = 2
====
